---- MODULE Spec2Model ----
(***************************************************************************)
(* A model of subgrid_emu: the SubgridEmulator facade (construction, load  *)
(* and predict) of src/subgrid_emu/emulator.py with its metadata table     *)
(* (model_metadata.py).                                                    *)
(*                                                                         *)
(* Conventions                                                             *)
(*  - Python None is the empty sequence <<>>, a present value v is <<v>>.  *)
(*  - Explained-variance thresholds are in basis points (0.95 = 9500).     *)
(*  - A numpy array is a record [shape, v]: its shape and its values in    *)
(*    row-major (C) order.                                                 *)
(*  - Floating-point values of the output transforms are exact symbolic    *)
(*    numbers  n/d * 10^e * (ln 10)^l  or one of nan, inf, -inf (see Num). *)
(*  - The sepia library and the shipped .npy/.pkl files are not part of    *)
(*    the repository's sources: the files are a fixed small disk (Disk     *)
(*    section) and the library calls are deterministic functions with the  *)
(*    contract the calling code states in its comments.                    *)
(***************************************************************************)
EXTENDS Integers, Sequences, FiniteSets, TLC

VARIABLES
    emu,         \* the emulator object the caller holds: <<>> or <<record>>
    last,        \* the last public call: its arguments, steps, error, result
    ref,         \* an earlier predict call the caller kept: <<>> or <<record>>
    sys_stdout,  \* the stream sys.stdout points at
    threads      \* the threads that load concurrently: where each one is

vars == <<emu, last, ref, sys_stdout, threads>>

-----------------------------------------------------------------------------
(* Bounds of the model                                                     *)

\* largest batch size k handed to predict
MaxK == 2
\* design-point coordinates handed to predict are 1..MaxV
MaxV == 3
\* length m of the (abstract) output grid of every shipped corpus
GridM == 3

-----------------------------------------------------------------------------
(* Sequence helpers                                                        *)

InSeq(x, s) == \E i \in 1..Len(s) : s[i] = x

RECURSIVE SumSeq(_)
SumSeq(s) == IF s = <<>> THEN 0 ELSE Head(s) + SumSeq(Tail(s))

RECURSIVE ProdSeq(_)
ProdSeq(s) == IF s = <<>> THEN 1 ELSE Head(s) * ProdSeq(Tail(s))

RECURSIVE FlattenSeq(_)
FlattenSeq(ss) == IF ss = <<>> THEN <<>> ELSE Head(ss) \o FlattenSeq(Tail(ss))

Abs(x) == IF x < 0 THEN -x ELSE x

RECURSIVE Gcd(_, _)
Gcd(a, b) == IF b = 0 THEN a ELSE Gcd(b, a % b)

-----------------------------------------------------------------------------
(* emulator.py: module constants                                           *)

AVAILABLE_STATS_5P == <<"GSMF", "CGD", "fGas", "BHMSM", "CSFR", "Pk">>
AVAILABLE_STATS_2P == <<"CGD_2p", "fGas_2p", "Pk_2p">>

\* statistic names a caller may pass: the available ones, two that the package
\* docstring lists but the lists above do not hold, and an arbitrary string
StatNames ==
    {"GSMF", "CGD", "fGas", "BHMSM", "CSFR", "Pk", "CGD_2p", "fGas_2p", "Pk_2p",
     "CGED", "CGD_CC_2p", "INVALID_STAT"}

\* z_index values a caller may pass
ZIndexes == {0, 1, 2, 3}

\* exp_variance values a caller may pass: None, 0 and 0.9999
ExpVariances == {<<>>, <<0>>, <<9999>>}

-----------------------------------------------------------------------------
(* model_metadata.py                                                       *)

TRAINING_GRIDS ==
    [s \in {"GSMF", "BHMSM", "fGas", "CGD", "Pk", "CSFR", "CGD_2p", "fGas_2p"} |->
        [n_params     |-> IF s \in {"CGD_2p", "fGas_2p"} THEN 2 ELSE 5,
         exp_variance |-> IF s \in {"CGD_2p", "fGas_2p"} THEN 9900 ELSE 9500]]

\* len(TRAINING_GRIDS[stat_name]['y_ind']): the number of points of the grid
\* the table records
TrainingGridLen(stat_name) ==
    CASE stat_name = "GSMF"    -> 39
      [] stat_name = "BHMSM"   -> 20
      [] stat_name = "fGas"    -> 40
      [] stat_name = "CGD"     -> 21 - 1
      [] stat_name = "Pk"      -> 443
      [] stat_name = "CSFR"    -> 655
      [] stat_name = "CGD_2p"  -> 21 - 1
      [] stat_name = "fGas_2p" -> 40
      [] OTHER                 -> 0

\* y_vals.shape[1] of the training data the posteriors were fitted on, where
\* the repository states it: debug_2p_issue.py (y_vals: (64, 19) and
\* (64, 8)) and fix_pk_data.py (255 points after the training mask)
TrainedCurvePoints(stat_name) ==
    CASE stat_name = "CGD_2p"  -> <<19>>
      [] stat_name = "fGas_2p" -> <<8>>
      [] stat_name = "Pk"      -> <<255>>
      [] OTHER                 -> <<>>

\* get_training_grid: the table entry, or ValueError for a name not in it
get_training_grid(stat_name) ==
    IF stat_name \notin DOMAIN TRAINING_GRIDS
    THEN [raised |-> TRUE,  val |-> [n_params |-> 0, exp_variance |-> 0]]
    ELSE [raised |-> FALSE, val |-> TRAINING_GRIDS[stat_name]]

-----------------------------------------------------------------------------
(* Errors                                                                  *)

NoError == [type |-> "none", what |-> "", names |-> <<>>]
Error(type, what, names) == [type |-> type, what |-> what, names |-> names]

-----------------------------------------------------------------------------
(* Disk: the installed package's models/ and data/ directories.  The files *)
(* themselves are not sources of the repository; this is a fixed small     *)
(* installation that has every case of the load path:                      *)
(*   z_index 0  model file and the three data files, all readable          *)
(*   z_index 1  no model file                                              *)
(*   z_index 2  model file present, <base>_y_ind.npy missing               *)
(*   z_index 3  all files present, the model pickle is unreadable          *)
(*   z_index 4  all files present, the corpus has a single response curve, *)
(*              on which the library's SVD raises                          *)
(*   z_index 5  all files present, the corpus has a single response curve, *)
(*              on which the library's PCA gives one component             *)

IsShipped(stat_name) == InSeq(stat_name, AVAILABLE_STATS_5P \o AVAILABLE_STATS_2P)

ModelFileExists(stat_name, z_index) == IsShipped(stat_name) /\ z_index \in {0, 2, 3, 4, 5}

DataFileExists(stat_name, z_index, file) ==
    IsShipped(stat_name) /\ (z_index \in {0, 3, 4, 5} \/ (z_index = 2 /\ file # "y_ind"))

PickleReadable(stat_name, z_index) == z_index # 3

\* number of posterior draws in every persisted chain
ChainLen == 2

\* The training corpus in <base>_params.npy, _y_vals.npy, _y_ind.npy:
\* p columns of design, m output values, the column means and the scalar
\* scale of the responses, and the cumulative explained variance (basis
\* points) of the principal components of the standardized responses.
Corpus(stat_name) ==
    [p      |-> IF InSeq(stat_name, AVAILABLE_STATS_2P) THEN 2 ELSE 5,
     n      |-> 64,
     m      |-> GridM,
     pca    |-> "ok",
     y_mean |-> [g \in 1..GridM |-> g - 1],
     y_sd   |-> IF InSeq(stat_name, AVAILABLE_STATS_2P) THEN 2 ELSE 1,
     cumvar |-> CASE stat_name = "CSFR"  -> <<9800, 9950, 10000>>
                  [] stat_name = "Pk_2p" -> <<9000, 9950, 10000>>
                  [] OTHER               -> <<9000, 9700, 10000>>]

\* The corpus of an installation directory.  What sepia does with a single
\* curve (a standard deviation over one row, an SVD of the result) is the
\* library's: both outcomes, an exception out of the SVD and a basis of one
\* component, are on the disk.
CorpusAt(stat_name, z_index) ==
    CASE z_index = 4 -> [Corpus(stat_name) EXCEPT !.n = 1, !.pca = "LinAlgError"]
      [] z_index = 5 -> [Corpus(stat_name) EXCEPT !.n = 1, !.cumvar = <<10000>>]
      [] OTHER       -> Corpus(stat_name)

\* smallest number of components whose cumulative explained variance reaches
\* the threshold (sepia create_K_basis with a fractional n_pc)
NumPC(cumvar, threshold) ==
    CHOOSE r \in 1..Len(cumvar) :
        /\ cumvar[r] >= threshold
        /\ \A j \in 1..(r - 1) : cumvar[j] < threshold

\* The thresholds the shipped posteriors were fitted with: 0.95 for the
\* 5-parameter statistics, 0.99 for the 2-parameter ones and 0.9999 for Pk_2p
\* (workaround_2p_models.py).
TrainedThreshold(stat_name) ==
    CASE stat_name = "Pk_2p"                     -> 9999
      [] InSeq(stat_name, AVAILABLE_STATS_2P)    -> 9900
      [] OTHER                                   -> 9500

\* The persisted posterior in <stat>_multivariate_model_z_index<z>.pkl: a chain
\* of draws, each with a flat betaU of (p + q) * r length-scales, where q = 1
\* for the statistics fitted with observational data (the 2-parameter ones).
PersistedModel(stat_name) ==
    LET c == Corpus(stat_name)
        q == IF InSeq(stat_name, AVAILABLE_STATS_2P) THEN 1 ELSE 0
        r == NumPC(c.cumvar, TrainedThreshold(stat_name))
    IN  [samples |-> [t \in 1..ChainLen |->
                        [betaU |-> [i \in 1..((c.p + q) * r) |-> (t + i) % 3]]],
         param_info |-> {"betaU", "lamUz", "lamWs", "lamWOs", "logPost"}]

-----------------------------------------------------------------------------
(* sepia: SepiaData, PCA, SepiaModel, restore_model_info, get_samples.     *)
(* External library; modelled as the deterministic functions the calling   *)
(* code relies on.                                                         *)

\* x_obs = np.array([[0.5]]), in tenths: the one observational coordinate
X_OBS == 5

\* j-th principal direction over the m grid points (orthogonal rows)
KRow(j, m) ==
    [g \in 1..m |-> IF j = 1 THEN 1 ELSE IF g < j THEN 1 ELSE IF g = j THEN 1 - j ELSE 0]

\* _sepia_data_format: SepiaData(t_sim, y_sim, y_ind_sim), no observations
_sepia_data_format(corpus) ==
    [p |-> corpus.p, q |-> 0, m |-> corpus.m, cumvar |-> corpus.cumvar,
     y_mean |-> corpus.y_mean, y_sd |-> corpus.y_sd,
     x_sim |-> <<>>, x_obs |-> <<>>, y_obs |-> <<>>]

\* an observation with noise from a generator earlier loads have advanced
\* (workaround_2p_models.py line 34 adds np.random.normal to this mean)
YObsNoisy(corpus) ==
    [g \in 1..Len(corpus.y_mean) |-> corpus.y_mean[g] + (IF emu = <<>> THEN 0 ELSE 1)]

\* y_obs = np.mean(y_vals, axis=0).reshape(1, -1): the column means
YObs(corpus) == corpus.y_mean

\* The 2-parameter branch: SepiaData with a zero x_sim column and one dummy
\* observation at x_obs = 0.5, which adds one input dimension (q = 1).
SepiaData2p(corpus) ==
    [p |-> corpus.p, q |-> 1, m |-> corpus.m, cumvar |-> corpus.cumvar,
     y_mean |-> corpus.y_mean, y_sd |-> corpus.y_sd,
     x_sim |-> <<0>>, x_obs |-> <<X_OBS>>, y_obs |-> YObs(corpus)]

\* _do_pca: standardize, build the K basis for the threshold, make the model.
\* A fresh SepiaModel holds no draws.
_do_pca(sepia_data, exp_variance) ==
    LET r == NumPC(sepia_data.cumvar, exp_variance)
    IN  [p |-> sepia_data.p, q |-> sepia_data.q, pu |-> r,
         K |-> [j \in 1..r |-> KRow(j, sepia_data.m)],
         orig_y_mean |-> sepia_data.y_mean, orig_y_sd |-> sepia_data.y_sd,
         x_obs |-> sepia_data.x_obs, y_obs |-> sepia_data.y_obs,
         val |-> <<>>, draws |-> <<>>, restored_by |-> "none", settings |-> {}]

\* The chain put back into the model's parameters: the current value is the
\* last draw (np.take(samples, -1, axis=0)), the draws are the whole chain.
PutSamplesBack(sepia_model, samples, by) ==
    [sepia_model EXCEPT !.val = <<samples[Len(samples)]>>,
                        !.draws = samples,
                        !.restored_by = by]

\* names of sepia_model.params
ModelParams == {"betaU", "lamUz", "lamWs", "lamWOs", "logPost"}

\* lines 264-273: the parameters whose fixed flag, prior and MCMC step
\* settings are copied from param_info
CopiedSettings(param_info) == {name \in ModelParams : name \in param_info /\ name # "logPost"}

\* sepia_model.restore_model_info(path): raises on an unreadable pickle,
\* raises IndexError for a model with a single PCA component (the case the
\* except clause of _load_model names), restores the chain otherwise.  It
\* does not compare the persisted shapes with the model's.
restore_model_info(sepia_model, stat_name, z_index) ==
    IF ~PickleReadable(stat_name, z_index)
    THEN [raised |-> "UnpicklingError", model |-> sepia_model]
    ELSE IF sepia_model.pu = 1
    THEN [raised |-> "IndexError", model |-> sepia_model]
    ELSE [raised |-> "none",
          model |-> [PutSamplesBack(sepia_model, PersistedModel(stat_name).samples, "restore")
                        EXCEPT !.settings = CopiedSettings(PersistedModel(stat_name).param_info)]]

\* a manual restore that takes the first draw as the current value
ManualRestoreFirst(sepia_model, stat_name) ==
    [PutSamplesBack(sepia_model, PersistedModel(stat_name).samples, "manual")
        EXCEPT !.val = <<PersistedModel(stat_name).samples[1]>>,
               !.settings = CopiedSettings(PersistedModel(stat_name).param_info)]

\* the except IndexError branch: pickle.load and a field-by-field copy
ManualRestore(sepia_model, stat_name) ==
    [PutSamplesBack(sepia_model, PersistedModel(stat_name).samples, "manual")
        EXCEPT !.settings = CopiedSettings(PersistedModel(stat_name).param_info)]

\* index of the draw get_samples(numsamples=1) returns: the sample set is
\* np.linspace(0, total - 1, numsamples), whose single point is the first draw
SampleIndex(total) == 1

\* model.get_samples(numsamples=1)
get_samples(sepia_model) == <<sepia_model.draws[SampleIndex(Len(sepia_model.draws))]>>

Transpose(rows, ncols) ==
    [c \in 1..ncols |-> [r \in 1..Len(rows) |-> rows[r][c]]]

-----------------------------------------------------------------------------
(* emulator.py: get_model_path, SubgridEmulator.__init__, _load_model,     *)
(* _cache_prediction_constants                                             *)

\* line 158: stat_name in AVAILABLE_STATS_2P + AVAILABLE_STATS_5P
\* a name check that lets every name through
NameCheckAny(stat_name) == TRUE

NameCheck(stat_name) == InSeq(stat_name, AVAILABLE_STATS_2P \o AVAILABLE_STATS_5P)

\* the message of the unknown-statistic ValueError lists these names
UnknownStatistic ==
    Error("ValueError", "Unknown statistic", AVAILABLE_STATS_5P \o AVAILABLE_STATS_2P)

\* __init__.py, "Available summary statistics": the names the package
\* docstring lists
DocumentedStats ==
    <<"GSMF", "BHMSM", "fGas", "CGD", "CGED", "Pk", "CSFR", "CGD_2p", "CGD_CC_2p", "fGas_2p">>

\* the constructor with "exp_variance or default" in place of the test
\* against None
InitAttrsTruthy(stat_name, exp_variance) ==
    LET g == get_training_grid(stat_name)
        given == exp_variance # <<>> /\ exp_variance[1] # 0
    IN  IF ~g.raised
        THEN [n_params |-> g.val.n_params,
              exp_variance |-> IF given THEN exp_variance[1] ELSE g.val.exp_variance]
        ELSE IF InSeq(stat_name, AVAILABLE_STATS_2P)
        THEN [n_params |-> 2, exp_variance |-> IF given THEN exp_variance[1] ELSE 9900]
        ELSE [n_params |-> 5, exp_variance |-> IF given THEN exp_variance[1] ELSE 9500]

\* lines 164-177: n_params and exp_variance from the metadata table, with
\* the hard-coded fallback when get_training_grid raises ValueError
InitAttrs(stat_name, exp_variance) ==
    LET g == get_training_grid(stat_name)
    IN  IF ~g.raised
        THEN [n_params |-> g.val.n_params,
              exp_variance |-> IF exp_variance # <<>> THEN exp_variance[1]
                               ELSE g.val.exp_variance]
        ELSE IF InSeq(stat_name, AVAILABLE_STATS_2P)
        THEN [n_params |-> 2,
              exp_variance |-> IF exp_variance # <<>> THEN exp_variance[1] ELSE 9900]
        ELSE [n_params |-> 5,
              exp_variance |-> IF exp_variance # <<>> THEN exp_variance[1] ELSE 9500]

\* a get_model_path without the existence test
get_model_path_unchecked(stat_name, z_index) == NoError

\* get_model_path: the path, or FileNotFoundError when it does not exist
get_model_path(stat_name, z_index) ==
    IF ModelFileExists(stat_name, z_index)
    THEN NoError
    ELSE Error("FileNotFoundError", "Model file not found",
               AVAILABLE_STATS_5P \o AVAILABLE_STATS_2P)

\* line 195: all(os.path.exists(p) for p in [params, y_vals, y_ind]) stops at
\* the first missing file; the steps are the existence tests it made
DataFileOrder == <<"params", "y_vals", "y_ind">>

RECURSIVE ExistsSteps(_, _, _)
ExistsSteps(stat_name, z_index, files) ==
    IF files = <<>> THEN <<>>
    ELSE IF DataFileExists(stat_name, z_index, Head(files))
    THEN <<"exists:" \o Head(files)>> \o ExistsSteps(stat_name, z_index, Tail(files))
    ELSE <<"exists:" \o Head(files)>>

AllDataFilesExist(stat_name, z_index) ==
    \A i \in 1..Len(DataFileOrder) : DataFileExists(stat_name, z_index, DataFileOrder[i])

\* the redirect put back after the restore call only, without the finally
RestoreRedirectedNoFinally(sepia_model, stat_name, z_index, stdout) ==
    LET old_stdout == stdout
        r == restore_model_info(sepia_model, stat_name, z_index)
    IN  [raised |-> r.raised, model |-> r.model,
         stdout |-> IF r.raised = "none" THEN old_stdout ELSE "StringIO"]

\* lines 247-254: sys.stdout is swapped for a StringIO around the restore and
\* put back in the finally clause, whether or not the restore raised
RestoreRedirected(sepia_model, stat_name, z_index, stdout) ==
    LET old_stdout == stdout
        r == restore_model_info(sepia_model, stat_name, z_index)
    IN  [raised |-> r.raised, model |-> r.model, stdout |-> old_stdout]

\* _cache_prediction_constants
_cache_prediction_constants(self) ==
    LET mdl == self.model[1]
    IN  [self EXCEPT !._K = mdl.K,
                     !._K_T = Transpose(mdl.K, Len(mdl.K[1])),
                     !._y_sd = mdl.orig_y_sd,
                     !._y_mean = mdl.orig_y_mean,
                     !._pred_samples = get_samples(mdl)]

\* _load_model on an object whose model is None
_load_model(self, stdout) ==
    LET stat_name == self.stat_name
        z_index == self.z_index
        path == get_model_path(stat_name, z_index)
        t1 == <<"exists:model">>
        t2 == t1 \o ExistsSteps(stat_name, z_index, DataFileOrder)
        t3 == t2 \o <<"np.load:params", "np.load:y_vals", "np.load:y_ind">>
        corpus == CorpusAt(stat_name, z_index)
        sepia_data == IF InSeq(stat_name, AVAILABLE_STATS_2P)
                      THEN SepiaData2p(corpus)
                      ELSE _sepia_data_format(corpus)
        sepia_model == _do_pca(sepia_data, self.exp_variance)
        t4 == t3 \o <<"SepiaData", "pca", "restore_model_info">>
        r == RestoreRedirected(sepia_model, stat_name, z_index, stdout)
    IN  IF path.type # "none"
        THEN [err |-> path, self |-> self, trace |-> t1, stdout |-> stdout]
        ELSE IF ~AllDataFilesExist(stat_name, z_index)
        THEN [err |-> Error("FileNotFoundError", "Training data not found", DataFileOrder),
              self |-> self, trace |-> t2, stdout |-> stdout]
        ELSE IF corpus.pca # "ok"
        THEN [err |-> Error(corpus.pca, "_do_pca", <<>>),
              self |-> self, trace |-> t3 \o <<"SepiaData", "pca">>, stdout |-> stdout]
        ELSE IF r.raised = "none"
        THEN [err |-> NoError,
              self |-> _cache_prediction_constants([self EXCEPT !.model = <<r.model>>]),
              trace |-> t4 \o <<"cache">>, stdout |-> r.stdout]
        ELSE IF r.raised = "IndexError"
        THEN [err |-> NoError,
              self |-> _cache_prediction_constants(
                          [self EXCEPT !.model = <<ManualRestore(r.model, stat_name)>>]),
              trace |-> t4 \o <<"except IndexError", "pickle.load", "manual_restore", "cache">>,
              stdout |-> r.stdout]
        ELSE [err |-> Error(r.raised, "restore_model_info", <<>>),
              self |-> self, trace |-> t4, stdout |-> r.stdout]

\* steps of a load that look a file up or read it
FileSteps ==
    {"exists:model", "exists:params", "exists:y_vals", "exists:y_ind",
     "np.load:params", "np.load:y_vals", "np.load:y_ind",
     "restore_model_info", "pickle.load"}

\* a constructor that swallows the error of _load_model and returns the
\* object as far as it got
SubgridEmulatorPartial(stat_name, z_index, exp_variance, stdout) ==
    IF ~NameCheck(stat_name)
    THEN [err |-> UnknownStatistic, self |-> <<>>, trace |-> <<>>, stdout |-> stdout]
    ELSE LET a == InitAttrs(stat_name, exp_variance)
             self0 == [stat_name |-> stat_name, z_index |-> z_index,
                       n_params |-> a.n_params, exp_variance |-> a.exp_variance,
                       model |-> <<>>, _K |-> <<>>, _K_T |-> <<>>, _y_sd |-> 0,
                       _y_mean |-> <<>>, _pred_samples |-> <<>>]
             l == _load_model(self0, stdout)
         IN  [err |-> NoError, self |-> <<l.self>>, trace |-> l.trace, stdout |-> l.stdout]

\* SubgridEmulator(stat_name, z_index, exp_variance): the error raised or the
\* object constructed
SubgridEmulator(stat_name, z_index, exp_variance, stdout) ==
    IF ~NameCheck(stat_name)
    THEN [err |-> UnknownStatistic, self |-> <<>>, trace |-> <<>>, stdout |-> stdout]
    ELSE LET a == InitAttrs(stat_name, exp_variance)
             self0 == [stat_name |-> stat_name, z_index |-> z_index,
                       n_params |-> a.n_params, exp_variance |-> a.exp_variance,
                       model |-> <<>>, _K |-> <<>>, _K_T |-> <<>>, _y_sd |-> 0,
                       _y_mean |-> <<>>, _pred_samples |-> <<>>]
             l == _load_model(self0, stdout)
         IN  [err |-> l.err,
              self |-> IF l.err.type = "none" THEN <<l.self>> ELSE <<>>,
              trace |-> l.trace, stdout |-> l.stdout]

-----------------------------------------------------------------------------
(* Numbers: the float values of the output transforms, kept exact.         *)
(* [k |-> "fin", n, d, e, l] is  n/d * 10^e * (ln 10)^l  in lowest terms   *)
(* with n, d free of factors of 10; "nan", "inf", "ninf" are the IEEE      *)
(* specials; "log10" / "pow10" stand for log10 / 10^ of the finite number  *)
(* in the other fields when that has no finite exact form.                 *)

Special(k) == [k |-> k, n |-> 0, d |-> 1, e |-> 0, l |-> 0]
NaN == Special("nan")
PosInf == Special("inf")
NegInf == Special("ninf")

RECURSIVE Strip10(_, _, _)
\* move factors of 10 of n (dir = 1) or of d (dir = -1) into the exponent
Strip10(x, e, dir) ==
    IF x # 0 /\ x % 10 = 0 THEN Strip10(x \div 10, e + dir, dir) ELSE <<x, e>>

Norm(n, d, e, l) ==
    IF n = 0 THEN [k |-> "fin", n |-> 0, d |-> 1, e |-> 0, l |-> 0]
    ELSE LET g  == Gcd(Abs(n), d)
             sn == Strip10(Abs(n) \div g, e, 1)
             sd == Strip10(d \div g, sn[2], -1)
         IN  [k |-> "fin", n |-> IF n < 0 THEN -sn[1] ELSE sn[1],
              d |-> sd[1], e |-> sd[2], l |-> l]

FromInt(i) == Norm(i, 1, 0, 0)

\* np.log(10)
LN10 == [k |-> "fin", n |-> 1, d |-> 1, e |-> 0, l |-> 1]

IsInfinite(x) == x.k \in {"inf", "ninf"}
IsZero(x) == x.k = "fin" /\ x.n = 0
\* sign of a number that is not nan: -1, 0 or 1
Sgn(x) ==
    CASE x.k = "inf"  -> 1
      [] x.k = "ninf" -> -1
      [] OTHER        -> IF x.n > 0 THEN 1 ELSE IF x.n < 0 THEN -1 ELSE 0
SignedInf(s) == IF s < 0 THEN NegInf ELSE PosInf

\* a * b on floats
Mul(a, b) ==
    IF a.k \notin {"fin", "inf", "ninf"} \/ b.k \notin {"fin", "inf", "ninf"} THEN NaN
    ELSE IF IsInfinite(a) \/ IsInfinite(b)
    THEN (IF IsZero(a) \/ IsZero(b) THEN NaN ELSE SignedInf(Sgn(a) * Sgn(b)))
    ELSE Norm(a.n * b.n, a.d * b.d, a.e + b.e, a.l + b.l)

\* a / b on floats (numpy: x / 0 is +-inf, 0 / 0 is nan)
Div(a, b) ==
    IF a.k \notin {"fin", "inf", "ninf"} \/ b.k \notin {"fin", "inf", "ninf"} THEN NaN
    ELSE IF IsInfinite(a)
    THEN (IF IsInfinite(b) THEN NaN ELSE SignedInf(Sgn(a) * (IF Sgn(b) < 0 THEN -1 ELSE 1)))
    ELSE IF IsInfinite(b) THEN FromInt(0)
    ELSE IF IsZero(b) THEN (IF IsZero(a) THEN NaN ELSE SignedInf(Sgn(a)))
    ELSE Norm(a.n * b.d * Sgn(b), a.d * Abs(b.n), a.e - b.e, a.l - b.l)

\* np.log10: nan below 0, -inf at 0, the exponent for an exact power of ten
Log10(x) ==
    CASE x.k = "nan"  -> NaN
      [] x.k = "inf"  -> PosInf
      [] x.k = "ninf" -> NaN
      [] x.k = "fin" /\ x.n < 0 -> NaN
      [] x.k = "fin" /\ x.n = 0 -> NegInf
      [] x.k = "fin" /\ x.n = 1 /\ x.d = 1 /\ x.l = 0 -> FromInt(x.e)
      [] x.k = "pow10" -> [x EXCEPT !.k = "fin"]
      [] OTHER -> [x EXCEPT !.k = "log10"]

RECURSIVE IntPow10(_)
IntPow10(e) == IF e <= 0 THEN 1 ELSE 10 * IntPow10(e - 1)

\* 10 ** x
Pow10(x) ==
    CASE x.k = "nan"  -> NaN
      [] x.k = "inf"  -> PosInf
      [] x.k = "ninf" -> FromInt(0)
      [] x.k = "fin" /\ x.n = 0 -> FromInt(1)
      [] x.k = "fin" /\ x.n # 0 /\ x.d = 1 /\ x.l = 0 /\ x.e >= 0 ->
            [k |-> "fin", n |-> 1, d |-> 1, e |-> x.n * IntPow10(x.e), l |-> 0]
      [] x.k = "log10" -> [x EXCEPT !.k = "fin"]
      [] OTHER -> [x EXCEPT !.k = "pow10"]

\* x >= 0 as numpy compares floats (False for nan)
GeqZero(x) == x.k \in {"inf", "pow10"} \/ (x.k = "fin" /\ x.n >= 0)

IsFinite(x) == x.k \in {"fin", "log10", "pow10"}

\* np.sqrt on the integer grid: the integer square root
ISqrt(x) == CHOOSE s \in 0..x : s * s <= x /\ x < (s + 1) * (s + 1)

-----------------------------------------------------------------------------
(* numpy arrays: [shape |-> <<...>>, v |-> values in row-major order]      *)

Array(shape, v) == [shape |-> shape, v |-> v]
Ndim(a) == Len(a.shape)

\* np.atleast_2d: a scalar becomes (1, 1), a vector of length w becomes
\* (1, w), an array of two or more dimensions is left alone
atleast_2d(a) ==
    CASE Ndim(a) = 0 -> Array(<<1, 1>>, a.v)
      [] Ndim(a) = 1 -> Array(<<1>> \o a.shape, a.v)
      [] OTHER       -> a

\* row i of a 2-D array
RowOf(a, i) == SubSeq(a.v, (i - 1) * a.shape[2] + 1, i * a.shape[2])

\* np.array(list of k vectors of length m): shape (k, m); an empty list
\* gives shape (0,)
np_array(list) ==
    IF list = <<>> THEN Array(<<0>>, <<>>)
    ELSE Array(<<Len(list), Len(list[1])>>, FlattenSeq(list))

\* a.T: reverses the axes; a 1-D array is its own transpose
T(a) ==
    IF Ndim(a) # 2 THEN a
    ELSE LET k == a.shape[1]
             m == a.shape[2]
         IN  Array(<<m, k>>,
                   [idx \in 1..(m * k) |->
                       a.v[((idx - 1) % k) * m + ((idx - 1) \div k) + 1]])

\* a.squeeze(): drops every axis of length 1
squeeze(a) == Array(SelectSeq(a.shape, LAMBDA n : n # 1), a.v)

\* an integer-valued array as an array of float values
AsFloat(a) == Array(a.shape, [i \in 1..Len(a.v) |-> FromInt(a.v[i])])

-----------------------------------------------------------------------------
(* sepia: SepiaEmulatorPrediction(t_pred, samples, model, storeMuSigma)    *)

\* a placeholder that moves once predictions have been made
XPredDrifting == IF last.op = "predict" THEN 6 ELSE 5

\* The coordinate sepia puts on the extra (observational) input dimension of
\* a q = 1 model when the caller gives t_pred only: predict never passes an
\* x_pred, so this is the library's fixed 0.5 (in tenths), the x_obs of
\* training.
X_PRED == 5

\* betaU reshaped to (p + q, pu) in Fortran order: entry (i, j)
BetaU(sample, pq, i, j) == sample.betaU[(j - 1) * pq + i]

\* the input of the GP for one request row: the caller's coordinates, then
\* the placeholder when the model has the extra dimension
GPInput(model, row) == row \o (IF model.q = 1 THEN <<X_PRED>> ELSE <<>>)

\* weighted distance of the input under component j's length-scales
GPScore(model, sample, row, j) ==
    LET xs == GPInput(model, row)
        pq == model.p + model.q
    IN  SumSeq([i \in 1..pq |-> BetaU(sample, pq, i, j) * xs[i]])

\* conditional mean of PC weight j at the input: a value in -1..2
GPMean(model, sample, row, j) == (GPScore(model, sample, row, j) % 4) - 1

\* conditional variance of PC weight j at the input: 0, 1 or 4, or a
\* round-off negative -1
GPVar(model, sample, row, j) ==
    LET s == GPScore(model, sample, row, j) % 4
    IN  CASE s = 0 -> 1 [] s = 1 -> 0 [] s = 2 -> 4 [] OTHER -> -1

\* The prediction object: raises when there is no model, when t_pred's width
\* is not the model's, and when betaU cannot be reshaped to (p + q, pu)
\* (SepiaPredict.py, betaU = np.reshape(betaU, (p+q, pu), order='F')).
\* mu[i] is the length-pu mean and sigma[i] the pu x pu covariance of request
\* row i, as the loop of predict reads them.
SepiaEmulatorPrediction(t_pred, samples, model) ==
    IF model = <<>> \/ samples = <<>>
    THEN [raised |-> "AttributeError", mu |-> <<>>, sigma |-> <<>>]
    ELSE LET mdl == model[1]
             smp == samples[1]
         IN  IF t_pred.shape[2] # mdl.p
             THEN [raised |-> "ValueError", mu |-> <<>>, sigma |-> <<>>]
             ELSE IF Len(smp.betaU) # (mdl.p + mdl.q) * mdl.pu
             THEN [raised |-> "ValueError", mu |-> <<>>, sigma |-> <<>>]
             ELSE [raised |-> "none",
                   mu |-> [i \in 1..t_pred.shape[1] |->
                             [j \in 1..mdl.pu |-> GPMean(mdl, smp, RowOf(t_pred, i), j)]],
                   sigma |-> [i \in 1..t_pred.shape[1] |->
                               [j \in 1..mdl.pu |-> [jj \in 1..mdl.pu |->
                                   IF j = jj THEN GPVar(mdl, smp, RowOf(t_pred, i), j)
                                   ELSE 0]]]]

-----------------------------------------------------------------------------
(* emulator.py: SubgridEmulator.predict                                    *)

\* A @ v
MatVec(A, v) == [g \in 1..Len(A) |-> SumSeq([j \in 1..Len(v) |-> A[g][j] * v[j]])]

\* A @ B for A of shape (a, b) and B of shape (b, c)
MatMul(A, B, c) ==
    [g \in 1..Len(A) |-> [h \in 1..c |->
        SumSeq([j \in 1..Len(B) |-> A[g][j] * B[j][h]])]]

\* np.sqrt(np.clip(np.diag(y_cov), 0, None))
ClippedSqrtDiag(y_cov) ==
    [g \in 1..Len(y_cov) |-> ISqrt(IF y_cov[g][g] < 0 THEN 0 ELSE y_cov[g][g])]

\* a readiness check that never fires
NotLoadedSkipped(self) == FALSE

\* line 332: self.model is None
NotLoaded(self) == self.model = <<>>

\* a width check that reads the number of rows, params.shape[0]
ParamRows(params) == params.shape[1]

\* line 338: params.shape[1], the width of the 2-D input
ParamWidth(params) == params.shape[2]

\* the moments of the first request row for every row
RowMomentsFirst(pred, i) == [mu |-> pred.mu[1], Sigma |-> pred.sigma[1]]

\* lines 355-356: the moments of request row i
RowMoments(pred, i) == [mu |-> pred.mu[i], Sigma |-> pred.sigma[i]]

\* lines 358-364: one row's curve-space mean and std, de-standardized
RowCurve(self, mu, Sigma) ==
    LET m     == Len(self._K_T)
        y_mu  == MatVec(self._K_T, mu)
        y_cov == MatMul(MatMul(self._K_T, Sigma, Len(mu)), self._K, m)
        y_std == ClippedSqrtDiag(y_cov)
    IN  [y_mu  |-> [g \in 1..m |-> self._y_sd * y_mu[g] + self._y_mean[g]],
         y_std |-> [g \in 1..m |-> self._y_sd * y_std[g]]]

\* the stacked rows without the transposition
StackedRows(list) == np_array(list)

\* lines 369-370: np.array(means).T
Stacked(list) == T(np_array(list))

\* the two transforms on each other's statistic
OutputTransformSwapped(stat_name) ==
    CASE stat_name = "GSMF"  -> "pow10"
      [] stat_name = "BHMSM" -> "log10"
      [] OTHER               -> "identity"

\* lines 372-382: which transform a statistic gets
OutputTransform(stat_name) ==
    CASE stat_name = "GSMF"  -> "log10"
      [] stat_name = "BHMSM" -> "pow10"
      [] OTHER               -> "identity"

\* the inverse-log10 branch without the factor ln 10
TransformStdNoLn(kind, pred_std, pred_mean) ==
    CASE kind = "log10" ->
             Array(pred_std.shape, [i \in 1..Len(pred_std.v) |->
                 Div(pred_std.v[i], Mul(pred_mean.v[i], LN10))])
      [] kind = "pow10" ->
             Array(pred_std.shape, [i \in 1..Len(pred_std.v) |->
                 Mul(pred_std.v[i], Pow10(pred_mean.v[i]))])
      [] OTHER -> pred_std

\* lines 376 and 381: the transformed std, from the std and mean before it
TransformStd(kind, pred_std, pred_mean) ==
    CASE kind = "log10" ->
             Array(pred_std.shape, [i \in 1..Len(pred_std.v) |->
                 Div(pred_std.v[i], Mul(pred_mean.v[i], LN10))])
      [] kind = "pow10" ->
             Array(pred_std.shape, [i \in 1..Len(pred_std.v) |->
                 Mul(Mul(pred_std.v[i], Pow10(pred_mean.v[i])), LN10)])
      [] OTHER -> pred_std

\* lines 377 and 382: the transformed mean
TransformMean(kind, pred_mean) ==
    CASE kind = "log10" ->
             Array(pred_mean.shape, [i \in 1..Len(pred_mean.v) |-> Log10(pred_mean.v[i])])
      [] kind = "pow10" ->
             Array(pred_mean.shape, [i \in 1..Len(pred_mean.v) |-> Pow10(pred_mean.v[i])])
      [] OTHER -> pred_mean

\* the two assignments in the other order: pred_mean overwritten first
ApplyTransformMeanFirst(stat_name, pred_mean, pred_std) ==
    LET kind  == OutputTransform(stat_name)
        mean1 == TransformMean(kind, pred_mean)
        std1  == TransformStd(kind, pred_std, mean1)
    IN  [pred_mean |-> mean1, pred_std |-> std1]

\* lines 372-382: pred_std is assigned first, from the old pred_mean, then
\* pred_mean is overwritten
ApplyTransform(stat_name, pred_mean, pred_std) ==
    LET kind  == OutputTransform(stat_name)
        std1  == TransformStd(kind, pred_std, pred_mean)
        mean1 == TransformMean(kind, pred_mean)
    IN  [pred_mean |-> mean1, pred_std |-> std1]

\* lines 385-387: squeeze both when the mean is 2-D with one column
SqueezeSingle(pred_mean, pred_std) ==
    IF Ndim(pred_mean) > 1 /\ pred_mean.shape[2] = 1
    THEN <<squeeze(pred_mean), squeeze(pred_std)>>
    ELSE <<pred_mean, pred_std>>

\* a predict that drops the model when the width of the input is wrong
AttrsAfterPredictReset(self, params) ==
    IF ~NotLoaded(self) /\ ParamWidth(atleast_2d(params)) # self.n_params
    THEN [self EXCEPT !.model = <<>>]
    ELSE self

\* lines 332-389: the attributes of self after predict; the body assigns to
\* locals only (params, pred, means, stds, pred_mean, pred_std)
AttrsAfterPredict(self, params) == self

NoResult == [err |-> NoError, ret |-> <<>>, trace |-> <<>>, destd |-> <<>>]

\* predict(params): the error raised or the pair returned, the steps taken,
\* and the de-standardized (mean, std) the transform was applied to
predict(self, params) ==
    IF NotLoaded(self)
    THEN [NoResult EXCEPT !.err = Error("RuntimeError", "Model not loaded", <<>>)]
    ELSE LET p2 == atleast_2d(params)
             t1 == <<"atleast_2d", "width">>
         IN  IF ParamWidth(p2) # self.n_params
             THEN [NoResult EXCEPT !.err = Error("ValueError", "Expected n_params parameters", <<>>),
                                   !.trace = t1]
             ELSE LET pred == SepiaEmulatorPrediction(p2, self._pred_samples, self.model)
                      t2 == t1 \o <<"SepiaEmulatorPrediction">>
                  IN  IF pred.raised # "none"
                      THEN [NoResult EXCEPT !.err = Error(pred.raised, "SepiaEmulatorPrediction", <<>>),
                                            !.trace = t2]
                      ELSE LET rows == [i \in 1..p2.shape[1] |->
                                          LET mo == RowMoments(pred, i)
                                          IN  RowCurve(self, mo.mu, mo.Sigma)]
                               means == [i \in 1..p2.shape[1] |-> rows[i].y_mu]
                               stds  == [i \in 1..p2.shape[1] |-> rows[i].y_std]
                               pred_mean == AsFloat(Stacked(means))
                               pred_std  == AsFloat(Stacked(stds))
                               tr == ApplyTransform(self.stat_name, pred_mean, pred_std)
                           IN  [err |-> NoError,
                                ret |-> SqueezeSingle(tr.pred_mean, tr.pred_std),
                                trace |-> t2 \o <<"project", "transform">>,
                                destd |-> <<pred_mean, pred_std>>]

-----------------------------------------------------------------------------
(* data_utils.py: get_x_grid, get_plot_info, get_valid_range               *)

\* np.logspace / np.linspace(start, stop, num) with the first skip points
\* dropped; start and stop in tenths
Grid(space, start, stop, num, skip) ==
    [space |-> space, start |-> start, stop |-> stop, num |-> num, skip |-> skip]

\* len(x_grid)
GridLen(x_grid) == x_grid.num - x_grid.skip

\* the names the if/elif chain of get_x_grid has a branch for
XGridNames ==
    {"GSMF", "BHMSM", "fGas", "fGas_2p", "CGD", "CGD_2p", "CGD_CC_2p", "CGED", "Pk", "CSFR"}

\* get_x_grid: (x_grid, x_label), or the ValueError of the else branch.  The
\* end points of the Pk grid, log10 of k_min and k_max, are rounded to
\* tenths; the labels are the plain words of the TeX strings.
get_x_grid(stat_name) ==
    CASE stat_name = "GSMF" ->
             [raised |-> "none", x_grid |-> Grid("log", 90, 120, 39, 0), x_label |-> "Stellar mass"]
      [] stat_name = "BHMSM" ->
             [raised |-> "none", x_grid |-> Grid("log", 100, 125, 20, 0), x_label |-> "Stellar mass"]
      [] stat_name \in {"fGas", "fGas_2p"} ->
             [raised |-> "none", x_grid |-> Grid("log", 135, 145, 40, 0), x_label |-> "Halo mass"]
      [] stat_name \in {"CGD", "CGD_2p"} ->
             [raised |-> "none", x_grid |-> Grid("log", -20, 5, 21, 1), x_label |-> "Radius"]
      [] stat_name = "CGD_CC_2p" ->
             [raised |-> "none", x_grid |-> Grid("log", -20, 5, 21, 1), x_label |-> "Radius"]
      [] stat_name = "CGED" ->
             [raised |-> "none", x_grid |-> Grid("log", -20, 5, 21, 1), x_label |-> "Radius"]
      [] stat_name = "Pk" ->
             [raised |-> "none", x_grid |-> Grid("log", -13, 11, 443, 0), x_label |-> "Wavenumber"]
      [] stat_name = "CSFR" ->
             [raised |-> "none", x_grid |-> Grid("lin", 1, 10, 655, 0), x_label |-> "Scale factor"]
      [] OTHER ->
             [raised |-> "ValueError", x_grid |-> <<>>, x_label |-> ""]

\* the dict get_plot_info returns; the TeX axis labels are abbreviated
PlotInfo(title, xscale, yscale) ==
    [title |-> title, xlabel |-> "xlabel", ylabel |-> "ylabel",
     xscale |-> xscale, yscale |-> yscale]

\* get_plot_info: the dict, or ValueError in the else branch
get_plot_info(stat_name) ==
    CASE stat_name = "GSMF" ->
             [raised |-> "none", info |-> <<PlotInfo("Galaxy stellar mass function", "log", "log")>>]
      [] stat_name = "BHMSM" ->
             [raised |-> "none", info |-> <<PlotInfo("Black hole mass-stellar mass", "log", "log")>>]
      [] stat_name \in {"fGas", "fGas_2p"} ->
             [raised |-> "none", info |-> <<PlotInfo("Cluster gas fraction", "log", "log")>>]
      [] stat_name \in {"CGD", "CGD_2p", "CGD_CC_2p"} ->
             [raised |-> "none",
              info |-> <<PlotInfo(IF stat_name = "CGD_CC_2p"
                                  THEN "Cluster gas density (Cool Core)"
                                  ELSE "Cluster gas density", "log", "log")>>]
      [] stat_name = "CGED" ->
             [raised |-> "none", info |-> <<PlotInfo("Cluster gas electron density", "log", "log")>>]
      [] stat_name = "Pk" ->
             [raised |-> "none", info |-> <<PlotInfo("Total power spectra ratio", "log", "linear")>>]
      [] stat_name = "CSFR" ->
             [raised |-> "none", info |-> <<PlotInfo("Cosmic star formation rate", "linear", "linear")>>]
      [] OTHER ->
             [raised |-> "ValueError", info |-> <<>>]

\* get_valid_range: the tuple (min, max), or ValueError in the else branch.
\* The two Pk bounds are rounded to five and six significant digits.
get_valid_range(stat_name) ==
    CASE stat_name = "GSMF" ->
             [raised |-> "none", range |-> <<Norm(5, 1, 9, 0), Norm(3, 1, 11, 0)>>]
      [] stat_name = "BHMSM" ->
             [raised |-> "none", range |-> <<Norm(1, 1, 10, 0), Norm(2, 1, 12, 0)>>]
      [] stat_name \in {"fGas", "fGas_2p"} ->
             [raised |-> "none",
              range |-> <<Pow10(Norm(135, 1, -1, 0)), Pow10(Norm(143, 1, -1, 0))>>]
      [] stat_name \in {"CGD", "CGD_2p", "CGD_CC_2p"} ->
             [raised |-> "none", range |-> <<Norm(15, 1, -3, 0), Norm(275, 1, -2, 0)>>]
      [] stat_name = "CGED" ->
             [raised |-> "none", range |-> <<Norm(25, 1, -3, 0), Norm(12, 1, -1, 0)>>]
      [] stat_name = "Pk" ->
             [raised |-> "none", range |-> <<Norm(49087, 1, -6, 0), Norm(125664, 1, -4, 0)>>]
      [] stat_name = "CSFR" ->
             [raised |-> "none", range |-> <<FromInt(0), FromInt(1)>>]
      [] OTHER ->
             [raised |-> "ValueError", range |-> <<>>]

-----------------------------------------------------------------------------
(* The state machine: a caller that loads emulators and asks predictions   *)

\* widths of the inputs handed to predict
Widths == {2, 5}

\* a design point of width w: first coordinate v, the others 1
DesignPoint(w, v) == [i \in 1..w |-> IF i = 1 THEN v ELSE 1]

\* a batch of k design points of width w: the first coordinates start at v
\* and go up (d = 1) or down (d = MaxV - 1) through 1..MaxV, so that the
\* rows of a batch differ and every pair of points comes in both orders
Batch(k, w, v, d) ==
    Array(<<k, w>>,
          FlattenSeq([i \in 1..k |-> DesignPoint(w, ((v - 1 + (i - 1) * d) % MaxV) + 1)]))

\* the arrays a caller hands to predict: scalars, single vectors, and
\* batches of 1..MaxK rows
PredictInputs ==
    {Array(<<>>, <<v>>) : v \in 1..MaxV}
    \cup {Array(<<w>>, DesignPoint(w, v)) : w \in Widths, v \in 1..MaxV}
    \cup {Batch(k, w, v, d) : k \in 1..MaxK, w \in Widths, v \in 1..MaxV, d \in {1, MaxV - 1}}

\* the argument triples a caller hands to load_emulator
\* every name is loaded with the defaults; the names of ProbeStats are also
\* loaded at the other redshift indexes and with an explicit threshold
ProbeStats == {"GSMF", "BHMSM", "CGD_2p", "Pk_2p", "INVALID_STAT"}

LoadArgs ==
    {a \in [stat_name : StatNames, z_index : ZIndexes, exp_variance : ExpVariances] :
        \/ a.z_index = 0 /\ a.exp_variance = <<>>
        \/ a.stat_name \in ProbeStats /\ (a.z_index = 0 \/ a.exp_variance = <<>>)}

NoCall ==
    [op |-> "none", stat_name |-> "", z_index |-> 0, exp_variance |-> <<>>,
     x |-> <<>>, err |-> NoError, ret |-> <<>>, trace |-> <<>>, destd |-> <<>>,
     again |-> FALSE]

\* the threads that call load_emulator concurrently
Loaders == {1, 2}

\* a thread that has not called load_emulator yet
IdleThread ==
    [pc |-> "idle", args |-> <<>>, old_stdout |-> "", printed |-> "", out |-> <<>>]

Init ==
    /\ emu = <<>>
    /\ last = NoCall
    /\ ref = <<>>
    /\ sys_stdout = "console"
    /\ threads = [t \in Loaders |-> IdleThread]

\* the emulator held was loaded with the name, z_index and threshold of self
SameLoad(self) ==
    /\ emu # <<>>
    /\ emu[1].stat_name = self.stat_name
    /\ emu[1].z_index = self.z_index
    /\ emu[1].exp_variance = self.exp_variance

\* emu = load_emulator(stat_name, z_index, exp_variance): on an error the
\* caller's variable keeps what it held; again records that the load
\* repeated the one of the emulator held
load_emulator(stat_name, z_index, exp_variance) ==
    LET c == SubgridEmulator(stat_name, z_index, exp_variance, sys_stdout)
    IN  /\ last' = [NoCall EXCEPT !.op = "load", !.stat_name = stat_name,
                                  !.z_index = z_index, !.exp_variance = exp_variance,
                                  !.err = c.err, !.trace = c.trace,
                                  !.again = (c.err.type = "none" /\ SameLoad(c.self[1]))]
        /\ emu' = IF c.err.type = "none" THEN c.self ELSE emu
        /\ ref' = IF c.err.type = "none" THEN <<>> ELSE ref
        /\ sys_stdout' = c.stdout
        /\ UNCHANGED threads

Load == \E a \in LoadArgs : load_emulator(a.stat_name, a.z_index, a.exp_variance)

\* mean, std = emu.predict(x); with keep the caller keeps the first call
\* that returns, to compare later ones with it, and notes that a call with
\* another input has come in between
PredictCall(x, keep) ==
    /\ emu # <<>>
    /\ LET r == predict(emu[1], x)
       IN  /\ last' = [NoCall EXCEPT !.op = "predict", !.x = <<x>>, !.err = r.err,
                                     !.ret = r.ret, !.trace = r.trace, !.destd = r.destd]
           /\ ref' = IF keep /\ ref = <<>> /\ r.err.type = "none"
                     THEN <<[x |-> x, err |-> r.err, ret |-> r.ret, between |-> FALSE]>>
                     ELSE IF keep /\ ref # <<>> /\ ref[1].x # x
                     THEN <<[ref[1] EXCEPT !.between = TRUE]>>
                     ELSE ref
    /\ emu' = <<AttrsAfterPredict(emu[1], x)>>
    /\ UNCHANGED <<sys_stdout, threads>>

Predict == \E x \in PredictInputs : PredictCall(x, FALSE)

Next == Load \/ Predict

Spec == Init /\ [][Next]_vars

\* A caller of the 2-parameter emulators who keeps the first result a loaded
\* emulator returns and goes on predicting.
LoadHistArgs == {a \in LoadArgs : InSeq(a.stat_name, AVAILABLE_STATS_2P) /\ a.z_index = 0}

LoadHist == \E a \in LoadHistArgs : load_emulator(a.stat_name, a.z_index, a.exp_variance)

\* what such a caller passes: scalars, pairs, and the batches of pairs that
\* start at the first design point
HistInputs ==
    {x \in PredictInputs :
        \/ x.shape = <<>>
        \/ Len(x.shape) = 1 /\ x.shape[1] = 2
        \/ Len(x.shape) = 2 /\ x.shape[2] = 2 /\ x.v[1] = 1}

PredictKeep == \E x \in HistInputs : PredictCall(x, TRUE)

NextHist == LoadHist \/ PredictKeep

SpecHist == Init /\ [][NextHist]_vars

\* A caller who also assigns the public attribute: emu.model = None, the
\* value line 179 gives it before _load_model has run.
ClearModel ==
    /\ emu # <<>>
    /\ emu[1].model # <<>>
    /\ emu' = <<[emu[1] EXCEPT !.model = <<>>]>>
    /\ last' = [NoCall EXCEPT !.op = "clear"]
    /\ UNCHANGED <<ref, sys_stdout, threads>>

NextAttr == Load \/ Predict \/ ClearModel

SpecAttr == Init /\ [][NextAttr]_vars

\* A caller of the data utilities, who holds the previous call next to the
\* last one.
DataOps == {"get_x_grid", "get_plot_info", "get_valid_range"}

Previous == IF last.op \in DataOps
            THEN <<[op |-> last.op, stat_name |-> last.stat_name, err |-> last.err]>>
            ELSE <<>>

DataCall(op, stat_name, raised, ret) ==
    /\ last' = [NoCall EXCEPT !.op = op, !.stat_name = stat_name,
                              !.err = IF raised = "none" THEN NoError
                                      ELSE Error(raised, "Unknown statistic", <<>>),
                              !.ret = ret]
    /\ ref' = Previous
    /\ UNCHANGED <<emu, sys_stdout, threads>>

GetXGrid ==
    \E s \in StatNames :
        LET r == get_x_grid(s)
        IN  DataCall("get_x_grid", s, r.raised,
                     IF r.raised = "none" THEN <<r.x_grid, r.x_label>> ELSE <<>>)

GetPlotInfo ==
    \E s \in StatNames :
        LET r == get_plot_info(s) IN DataCall("get_plot_info", s, r.raised, r.info)

GetValidRange ==
    \E s \in StatNames :
        LET r == get_valid_range(s) IN DataCall("get_valid_range", s, r.raised, r.range)

NextData == GetXGrid \/ GetPlotInfo \/ GetValidRange

SpecData == Init /\ [][NextData]_vars

\* A caller who loads from installations whose corpus may be too small or
\* whose model file may be unreadable.
CorpusArgs ==
    [stat_name : {"GSMF", "CGD_2p", "INVALID_STAT"}, z_index : {0, 3, 4, 5},
     exp_variance : ExpVariances]

LoadCorpus == \E a \in CorpusArgs : load_emulator(a.stat_name, a.z_index, a.exp_variance)

SpecCorpus == Init /\ [][LoadCorpus]_vars

\* Two threads, each calling load_emulator once.  The statements of lines
\* 249-254 of _load_model are separate steps, since the interpreter may
\* switch threads between any two of them; what comes before and after them
\* works on the thread's own objects and on files that are only read.
ConcArgs == {a \in LoadArgs : a.stat_name \in {"GSMF", "CGD_2p", "INVALID_STAT"}}

\* the StringIO() a thread creates at line 250
StringIO(t) == IF t = 1 THEN "StringIO_1" ELSE "StringIO_2"

\* what load_emulator gives the thread: the error raised or the object
Outcome(a) ==
    LET c == SubgridEmulator(a.stat_name, a.z_index, a.exp_variance, "console")
    IN  [err |-> c.err, self |-> c.self]

\* the load gets as far as the restore of line 252
ReachesRestore(a) ==
    InSeq("restore_model_info",
          SubgridEmulator(a.stat_name, a.z_index, a.exp_variance, "console").trace)

\* lines 153-246: name check, attributes, file look-ups, np.load, PCA; a
\* load that raises here is over
Start(t) ==
    /\ threads[t].pc = "idle"
    /\ \E a \in ConcArgs :
           threads' = [threads EXCEPT ![t] =
               IF ReachesRestore(a)
               THEN [@ EXCEPT !.pc = "save", !.args = <<a>>]
               ELSE [@ EXCEPT !.pc = "done", !.args = <<a>>, !.out = <<Outcome(a)>>]]
    /\ UNCHANGED <<emu, last, ref, sys_stdout>>

\* line 249: old_stdout = sys.stdout
SaveStdout(t) ==
    /\ threads[t].pc = "save"
    /\ threads' = [threads EXCEPT ![t] = [@ EXCEPT !.pc = "redirect",
                                                   !.old_stdout = sys_stdout]]
    /\ UNCHANGED <<emu, last, ref, sys_stdout>>

\* line 250: sys.stdout = StringIO()
Redirect(t) ==
    /\ threads[t].pc = "redirect"
    /\ sys_stdout' = StringIO(t)
    /\ threads' = [threads EXCEPT ![t] = [@ EXCEPT !.pc = "restore"]]
    /\ UNCHANGED <<emu, last, ref>>

\* line 252: restore_model_info, whose print goes to the stream sys.stdout
\* points at when it runs
Restore(t) ==
    /\ threads[t].pc = "restore"
    /\ threads' = [threads EXCEPT ![t] = [@ EXCEPT !.pc = "finally",
                                                   !.printed = sys_stdout]]
    /\ UNCHANGED <<emu, last, ref, sys_stdout>>

\* line 254: sys.stdout = old_stdout, then the rest of the load (manual
\* restore or caching, or the exception going up) on the thread's own object
Finally(t) ==
    /\ threads[t].pc = "finally"
    /\ sys_stdout' = threads[t].old_stdout
    /\ threads' = [threads EXCEPT ![t] = [@ EXCEPT !.pc = "done",
                                                   !.out = <<Outcome(threads[t].args[1])>>]]
    /\ UNCHANGED <<emu, last, ref>>

NextConc ==
    \E t \in Loaders :
        Start(t) \/ SaveStdout(t) \/ Redirect(t) \/ Restore(t) \/ Finally(t)

SpecConc == Init /\ [][NextConc]_vars

-----------------------------------------------------------------------------
(* Properties                                                              *)

\* the names load_emulator accepts
AvailableStats == AVAILABLE_STATS_5P \o AVAILABLE_STATS_2P

\* the last call was predict(x) on the loaded emulator, and what it was given
Predicted == last.op = "predict"
Given == last.x[1]
Returned == Predicted /\ last.err.type = "none"

\* the number of design points and the parameter width of an input as the
\* caller sees it: a scalar is one point of one parameter, a vector one point
RowsOf(x) == IF Len(x.shape) = 2 THEN x.shape[1] ELSE 1
WidthOf(x) == IF Len(x.shape) = 0 THEN 1 ELSE x.shape[Len(x.shape)]

\* the number of output grid points of the loaded emulator
GridOf(self) == Len(self._y_mean)

\* C1: loading a name that is not in AVAILABLE_STATS_5P + AVAILABLE_STATS_2P
\* raises the unknown-statistic ValueError, which enumerates the valid names,
\* and no model or training-data file has been looked up or read by then.
C1_UnknownNameRejected ==
    (last.op = "load" /\ ~InSeq(last.stat_name, AvailableStats)) =>
        /\ last.err.type = "ValueError"
        /\ last.err.what = "Unknown statistic"
        /\ \A n \in {"GSMF", "CGD", "fGas", "BHMSM", "CSFR", "Pk", "CGD_2p", "fGas_2p", "Pk_2p"} :
               InSeq(n, last.err.names)
        /\ \A i \in 1..Len(last.trace) : last.trace[i] \notin FileSteps

C1_Witness ==
    /\ last.op = "load"
    /\ last.stat_name = "CGED"
    /\ last.err.type = "ValueError"
    /\ last.trace = <<>>

\* C2: predict raises the dimension-mismatch ValueError whenever the width of
\* the input differs from the emulator's n_params, for a single vector and
\* for a batch, before the GP prediction is computed, and the call leaves
\* the emulator as it was.
C2_State ==
    (Predicted /\ WidthOf(Given) # emu[1].n_params) =>
        /\ last.err.type = "ValueError"
        /\ last.err.what = "Expected n_params parameters"
        /\ ~InSeq("SepiaEmulatorPrediction", last.trace)
        /\ last.ret = <<>>

C2_Step == (last'.op = "predict" /\ last'.err.type = "ValueError") => emu' = emu

C2_DimensionMismatch == []C2_State /\ [][C2_Step]_vars

C2_Witness ==
    /\ Predicted
    /\ Given.shape = <<2, 5>>
    /\ emu[1].n_params = 2
    /\ last.err.what = "Expected n_params parameters"

LeqNum(a, b) ==
    /\ a.k = "fin" /\ b.k = "fin" /\ a.l = b.l
    /\ LET lo == IF a.e < b.e THEN a.e ELSE b.e
       IN  a.n * b.d * IntPow10(a.e - lo) <= b.n * a.d * IntPow10(b.e - lo)

\* C4: for a single parameter vector the second value returned by predict
\* is a two-column array of [5%, 95%] bounds, with as many rows as the
\* returned mean has elements, and column 0 <= column 1 in every row.
C4_TwoColumnQuantiles ==
    (Returned /\ RowsOf(Given) = 1) =>
        LET mean      == last.ret[1]
            quantiles == last.ret[2]
        IN  /\ Ndim(quantiles) = 2
            /\ quantiles.shape = <<Len(mean.v), 2>>
            /\ \A g \in 1..Len(mean.v) :
                   LeqNum(quantiles.v[2 * g - 1], quantiles.v[2 * g])

\* C5: every element of the std returned by predict is >= 0, for every
\* statistic, GSMF and BHMSM included, whatever the sign of the
\* de-standardized mean.
C5_StdNonNegative ==
    Returned => \A i \in 1..Len(last.ret[2].v) : GeqZero(last.ret[2].v[i])

\* C6: the transform of the output depends on the statistic alone: GSMF gets
\* std' = std / (mean * ln 10) and mean' = log10(mean), BHMSM gets
\* std' = std * 10^mean * ln 10 and mean' = 10^mean, both from the mean before
\* the transform, and every other statistic gets the de-standardized mean
\* and std unchanged.
C6_TransformByVariant ==
    Returned =>
        LET mean0 == last.destd[1].v
            std0  == last.destd[2].v
            mean1 == last.ret[1].v
            std1  == last.ret[2].v
            name  == emu[1].stat_name
        IN  /\ Len(mean1) = Len(mean0) /\ Len(std1) = Len(std0)
            /\ \A i \in 1..Len(mean0) :
                   CASE name = "GSMF" ->
                            /\ std1[i] = Div(std0[i], Mul(mean0[i], LN10))
                            /\ mean1[i] = Log10(mean0[i])
                     [] name = "BHMSM" ->
                            /\ std1[i] = Mul(Mul(std0[i], Pow10(mean0[i])), LN10)
                            /\ mean1[i] = Pow10(mean0[i])
                     [] OTHER ->
                            /\ std1[i] = std0[i]
                            /\ mean1[i] = mean0[i]

C6_Witness ==
    /\ Returned
    /\ emu[1].stat_name = "GSMF"
    /\ \E i \in 1..Len(last.ret[1].v) :
           /\ last.ret[1].v[i] # last.destd[1].v[i]
           /\ last.ret[2].v[i] # last.destd[2].v[i]

\* C7: the i-th result of a batch equals the result of predicting row i
\* alone on the same emulator, in the same order, whatever the other rows
\* of the batch are; a batch raises exactly when its rows do.
C7_BatchEquivalence ==
    (Predicted /\ Len(Given.shape) = 2) =>
        LET k == Given.shape[1]
            m == GridOf(emu[1])
        IN  \A i \in 1..k :
                LET alone == predict(emu[1], Array(<<Given.shape[2]>>, RowOf(Given, i)))
                IN  /\ alone.err = last.err
                    /\ last.err.type = "none" =>
                           \A a \in 1..2 : \A g \in 1..m :
                               last.ret[a].v[(g - 1) * k + i] = alone.ret[a].v[g]

C7_Witness ==
    /\ Returned
    /\ Given.shape[1] = 2
    /\ \E g \in 1..GridOf(emu[1]) :
           last.ret[1].v[(g - 1) * 2 + 1] # last.ret[1].v[(g - 1) * 2 + 2]

C9_Reload ==
    (last'.op = "load" /\ last'.err.type = "none" /\ SameLoad(emu'[1])) =>
        /\ emu'[1]._K = emu[1]._K
        /\ emu'[1]._y_mean = emu[1]._y_mean
        /\ emu'[1]._y_sd = emu[1]._y_sd
        /\ emu'[1]._pred_samples = emu[1]._pred_samples
        /\ emu' = emu
        /\ \A x \in PredictInputs : predict(emu'[1], x) = predict(emu[1], x)

C10_NotReady ==
    (Predicted /\ emu[1].model = <<>>) =>
        /\ last.err.type = "RuntimeError"
        /\ last.err.what = "Model not loaded"
        /\ last.trace = <<>>
        /\ last.ret = <<>>

C10_Witness ==
    /\ Predicted
    /\ emu[1].model = <<>>
    /\ last.err.type = "RuntimeError"
    /\ WidthOf(Given) # emu[1].n_params

\* C11: predict never returns an array holding a non-finite value: when the
\* mean or the std comes out NaN or infinite the call raises instead.
C11_FiniteOrError ==
    Returned =>
        \A a \in 1..2 : \A i \in 1..Len(last.ret[a].v) : IsFinite(last.ret[a].v[i])

\* min < max for the two kinds of values get_valid_range returns
LtRange(a, b) ==
    CASE a.k = "fin" /\ b.k = "fin" -> ~LeqNum(b, a)
      [] a.k = "pow10" /\ b.k = "pow10" ->
             ~LeqNum([b EXCEPT !.k = "fin"], [a EXCEPT !.k = "fin"])
      [] OTHER -> FALSE

\* C12: for every name of AVAILABLE_STATS_5P + AVAILABLE_STATS_2P the data
\* utilities succeed: get_x_grid returns a non-empty grid and a non-empty
\* label, get_plot_info a dict whose xscale and yscale are 'linear' or
\* 'log', get_valid_range a pair with min < max.
C12_DataUtilitiesCoverAvailable ==
    (last.op \in DataOps /\ InSeq(last.stat_name, AvailableStats)) =>
        /\ last.err.type = "none"
        /\ last.op = "get_x_grid" =>
               /\ Len(last.ret) = 2
               /\ GridLen(last.ret[1]) > 0
               /\ last.ret[2] # ""
        /\ last.op = "get_plot_info" =>
               /\ DOMAIN last.ret[1] = {"title", "xlabel", "ylabel", "xscale", "yscale"}
               /\ last.ret[1].xscale \in {"linear", "log"}
               /\ last.ret[1].yscale \in {"linear", "log"}
        /\ last.op = "get_valid_range" =>
               /\ Len(last.ret) = 2
               /\ LtRange(last.ret[1], last.ret[2])

\* C13: get_x_grid called with a name it has no branch for raises
\* FileNotFoundError.
C13_XGridUnknownName ==
    (last.op = "get_x_grid" /\ last.stat_name \notin XGridNames) =>
        last.err.type = "FileNotFoundError"

\* a load_emulator call that returned an emulator
Loaded == last.op = "load" /\ last.err.type = "none" /\ emu # <<>>

\* C14: a loaded emulator has n_params 5 for a name of AVAILABLE_STATS_5P and
\* 2 for a name of AVAILABLE_STATS_2P, and its exp_variance is the caller's
\* value whenever one is given, 0 included, and otherwise 0.95 for the
\* 5-parameter and 0.99 for the 2-parameter statistics.
C14_ParamsAndThreshold ==
    Loaded =>
        /\ InSeq(last.stat_name, AVAILABLE_STATS_5P) => emu[1].n_params = 5
        /\ InSeq(last.stat_name, AVAILABLE_STATS_2P) => emu[1].n_params = 2
        /\ last.exp_variance # <<>> => emu[1].exp_variance = last.exp_variance[1]
        /\ last.exp_variance = <<>> =>
               emu[1].exp_variance = IF InSeq(last.stat_name, AVAILABLE_STATS_5P)
                                     THEN 9500 ELSE 9900

\* a load with exp_variance=0 returned an emulator whose threshold is 0
C14_Witness ==
    /\ Loaded
    /\ last.exp_variance = <<0>>
    /\ emu[1].exp_variance = 0
    /\ emu[1].n_params = 2

\* C15: every statistic the package documentation lists as available (GSMF,
\* BHMSM, fGas, CGD, CGED, Pk, CSFR, CGD_2p, CGD_CC_2p, fGas_2p) passes the
\* name check of the constructor: loading it does not raise the
\* unknown-statistic ValueError.
C15_DocumentedNamesAccepted ==
    (last.op = "load" /\ InSeq(last.stat_name, DocumentedStats)) =>
        last.err # UnknownStatistic

\* mean > 0
Positive(x) == x.k = "fin" /\ x.n > 0

\* the GSMF branch followed by the BHMSM branch
RoundTrip(pred_mean, pred_std) ==
    LET f == ApplyTransform("GSMF", pred_mean, pred_std)
    IN  ApplyTransform("BHMSM", f.pred_mean, f.pred_std)

\* C16: the forward log10 transform of (mean, std) with mean > 0 followed by
\* the inverse-log10 transform recovers the mean and the std, as in
\* (100, 10) -> (2, 10/(100 ln 10)) -> (100, 10); the GSMF and BHMSM branches
\* of predict are these two transforms.
C16_DeltaRoundTrip ==
    /\ LET m == Array(<<1>>, <<FromInt(100)>>)
           s == Array(<<1>>, <<FromInt(10)>>)
           f == ApplyTransform("GSMF", m, s)
       IN  /\ f.pred_mean.v = <<FromInt(2)>>
           /\ f.pred_std.v = <<Norm(1, 1, -1, -1)>>
           /\ RoundTrip(m, s) = [pred_mean |-> m, pred_std |-> s]
    /\ Returned =>
           LET mean0 == last.destd[1]
               std0  == last.destd[2]
               back  == RoundTrip(mean0, std0)
               undo  == ApplyTransform("BHMSM", last.ret[1], last.ret[2])
           IN  \A i \in 1..Len(mean0.v) :
                   Positive(mean0.v[i]) =>
                       /\ back.pred_mean.v[i] = mean0.v[i]
                       /\ back.pred_std.v[i] = std0.v[i]
                       /\ emu[1].stat_name = "GSMF" =>
                              /\ undo.pred_mean.v[i] = mean0.v[i]
                              /\ undo.pred_std.v[i] = std0.v[i]

\* a GSMF prediction whose mean is positive and not a power of ten at a grid
\* point where the std is not zero
C16_Witness ==
    /\ Returned
    /\ emu[1].stat_name = "GSMF"
    /\ \E i \in 1..Len(last.destd[1].v) :
           /\ Positive(last.destd[1].v[i])
           /\ last.ret[1].v[i].k = "log10"
           /\ ~IsZero(last.destd[2].v[i])
           /\ last.ret[2].v[i] # last.destd[2].v[i]

\* C17: in the GSMF and the BHMSM branch the returned std is the derivative
\* formula evaluated at the mean before the transform, never at the mean
\* after it.
C17_StdFromOldMean ==
    (Returned /\ emu[1].stat_name \in {"GSMF", "BHMSM"}) =>
        LET kind  == OutputTransform(emu[1].stat_name)
            atOld == TransformStd(kind, last.destd[2], last.destd[1])
            atNew == TransformStd(kind, last.destd[2], TransformMean(kind, last.destd[1]))
        IN  \A i \in 1..Len(last.ret[2].v) :
                /\ last.ret[2].v[i] = atOld.v[i]
                /\ atNew.v[i] # atOld.v[i] => last.ret[2].v[i] # atNew.v[i]

\* a BHMSM prediction at a point where the two evaluations differ
C17_Witness ==
    /\ Returned
    /\ emu[1].stat_name = "BHMSM"
    /\ LET atNew == TransformStd("pow10", last.destd[2],
                                 TransformMean("pow10", last.destd[1]))
       IN  \E i \in 1..Len(last.ret[2].v) :
               /\ IsFinite(atNew.v[i])
               /\ IsFinite(last.ret[2].v[i])
               /\ atNew.v[i] # last.ret[2].v[i]

\* the legacy dimensions q whose expected flat length (p + q) * r equals the
\* length of the restored hyperparameter array
MatchingQ(self) ==
    {q \in {0, 1} :
        (self.n_params + q) * self.model[1].pu = Len(self._pred_samples[1].betaU)}

\* C18: the legacy dimension q used for a restored posterior is the one
\* q in {0, 1} for which (p + q) * r is the flat length of the persisted
\* hyperparameter array; a load for which neither or both match fails with
\* a shape-reconciliation error instead of returning an emulator.
C18_ShapeReconciliation ==
    /\ Loaded =>
           /\ Cardinality(MatchingQ(emu[1])) = 1
           /\ emu[1].model[1].q \in MatchingQ(emu[1])
    /\ (last.op = "load" /\ InSeq("restore_model_info", last.trace)
                         /\ last.err.type # "none") =>
           last.err.type \in {"ShapeReconciliationError", "UnpicklingError"}

\* C19: a failure of the restore step reaches the caller as an error: no
\* load goes on, after restore_model_info raised, with a model restored in
\* another way.
C19_NoRestoreFallback ==
    /\ last.op = "load" =>
           ~(InSeq("manual_restore", last.trace) /\ last.err.type = "none")
    /\ emu # <<>> => emu[1].model[1].restored_by = "restore"

\* both concurrent loads are over
BothDone == \A t \in Loaders : threads[t].pc = "done"

\* C20: after two concurrent loads, whatever the interleaving, each load's
\* outcome and the process-wide state, the stream sys.stdout points at
\* included, are those of the two loads run one after the other: each load
\* returns what it returns alone, its restore printed into its own buffer
\* only, and sys.stdout is the stream it was before.
C20_SerializableLoads ==
    BothDone =>
        /\ sys_stdout = "console"
        /\ \A t \in Loaders :
               /\ threads[t].out = <<Outcome(threads[t].args[1])>>
               /\ threads[t].printed \in {"", StringIO(t)}

\* the thread has run the construction of its variant: PCA and restore
Constructed(t) == threads[t].printed # ""

\* C21: under concurrent first access to the same variant the basis and the
\* posterior are constructed at most once: two threads that load the same
\* variant do not each run their own construction.
C21_ConstructedOncePerVariant ==
    \A t, u \in Loaders :
        (/\ t # u
         /\ threads[t].args # <<>> /\ threads[u].args # <<>>
         /\ threads[t].args[1].stat_name = threads[u].args[1].stat_name
         /\ threads[t].args[1].z_index = threads[u].args[1].z_index) =>
            ~(Constructed(t) /\ Constructed(u))

\* the most recent draw of the persisted chain of a statistic
LastDraw(stat_name) ==
    PersistedModel(stat_name).samples[Len(PersistedModel(stat_name).samples)]

\* C22: the posterior sample cached at load time, which every predict call
\* uses, is the last draw of the persisted chain, after the normal restore
\* as well as after the manual one.
C22_CachedSampleIsLastDraw ==
    Loaded =>
        /\ Len(emu[1]._pred_samples) = 1
        /\ emu[1]._pred_samples[1] = LastDraw(emu[1].stat_name)

\* C23: a corpus with fewer than 2 response curves or an empty output grid
\* makes the load fail with an insufficient-data error, and the load does
\* not go on to the PCA or to the restore with it.
C23_InsufficientData ==
    (/\ last.op = "load"
     /\ InSeq("np.load:y_vals", last.trace)
     /\ LET corpus == CorpusAt(last.stat_name, last.z_index)
        IN  corpus.n < 2 \/ corpus.m < 1) =>
        /\ last.err.type = "InsufficientData"
        /\ ~InSeq("pca", last.trace)
        /\ ~InSeq("restore_model_info", last.trace)

\* C24: every name the constructor accepts has an entry in TRAINING_GRIDS:
\* get_training_grid does not raise for it, so the hard-coded fallback of
\* the constructor is never what gives n_params and the default threshold.
C24_MetadataCoversAccepted ==
    (last.op = "load" /\ NameCheck(last.stat_name)) =>
        /\ last.stat_name \in DOMAIN TRAINING_GRIDS
        /\ ~get_training_grid(last.stat_name).raised

\* C25: for each statistic of TRAINING_GRIDS the number of points of its
\* y_ind, which is also the number of points of the grid get_x_grid returns
\* for it, is the number of output values of the training response curves,
\* and so of a predicted curve.
C25_GridMatchesTrainingData ==
    (/\ last.op = "get_x_grid"
     /\ last.stat_name \in DOMAIN TRAINING_GRIDS) =>
        /\ last.err.type = "none"
        /\ GridLen(last.ret[1]) = TrainingGridLen(last.stat_name)
        /\ TrainedCurvePoints(last.stat_name) \in
               {<<>>, <<TrainingGridLen(last.stat_name)>>}

\* a step of predict leaves every attribute of the emulator as it was
C26_Step == last'.op = "predict" => emu' = emu

\* C26: a variant is immutable after load: no predict call, returning or
\* raising, changes stat_name, z_index, n_params, exp_variance, the model
\* or the cached constants of the emulator.
C26_ImmutableAfterLoad == [][C26_Step]_vars

\* a raising predict after a returning one, on an emulator still loaded
C26_Witness ==
    /\ Predicted
    /\ last.err.type = "ValueError"
    /\ ref # <<>>
    /\ ref[1].between
    /\ emu[1].model # <<>>
    /\ emu[1]._pred_samples # <<>>

\* a step of load_emulator leaves sys.stdout at the stream it was at
C27_Step == last'.op = "load" => sys_stdout' = sys_stdout

\* C27: in a single thread a load leaves sys.stdout pointing at the stream
\* it pointed at before, on every path: the restore succeeds, the restore
\* raises IndexError and the manual restore runs, the restore raises
\* another exception that goes up to the caller.
C27_StdoutRestored == [][C27_Step]_vars

\* a load whose restore raised an exception that reached the caller, with
\* sys.stdout back at the console
C27_Witness ==
    /\ last.op = "load"
    /\ InSeq("restore_model_info", last.trace)
    /\ last.err.type = "UnpicklingError"
    /\ sys_stdout = "console"

\* C28: an emulator obtained from the constructor or load_emulator has its
\* model set and every prediction constant cached: a load that raises at
\* any step returns no instance, and predict never takes its 'Model not
\* loaded' branch on such an emulator.
C28_ConstructedIsLoaded ==
    /\ emu # <<>> =>
           /\ emu[1].model # <<>>
           /\ emu[1]._K # <<>> /\ emu[1]._K_T # <<>>
           /\ emu[1]._y_sd # 0 /\ emu[1]._y_mean # <<>>
           /\ emu[1]._pred_samples # <<>>
           /\ Predicted => last.err.what # "Model not loaded"
    /\ (last.op = "load" /\ last.err.type # "none") =>
           (emu = <<>> \/ (emu[1].stat_name # last.stat_name \/ emu[1].z_index # last.z_index))

\* a load that raised inside the restore, with the emulator of an earlier
\* load still complete in the caller's hands
C28_Witness ==
    /\ last.op = "load"
    /\ InSeq("restore_model_info", last.trace)
    /\ last.err.type # "none"
    /\ emu # <<>>
    /\ emu[1].model # <<>>
    /\ emu[1].stat_name = last.stat_name

\* steps of a load after its three checks
LaterSteps ==
    {"np.load:params", "np.load:y_vals", "np.load:y_ind", "SepiaData", "pca",
     "restore_model_info", "pickle.load", "manual_restore", "cache"}

\* C29: construction checks in a fixed order and the first failing check
\* decides the error: the name (ValueError), then the model file
\* (FileNotFoundError for the model path), then the three training-data
\* files (FileNotFoundError for the data files); after a failed check no
\* data is read, no PCA is run and no restore is attempted.
C29_CheckOrder ==
    last.op = "load" =>
        LET name  == NameCheck(last.stat_name)
            model == ModelFileExists(last.stat_name, last.z_index)
            data  == AllDataFilesExist(last.stat_name, last.z_index)
            after == \E i \in 1..Len(last.trace) : last.trace[i] \in LaterSteps
        IN  /\ ~name =>
                   /\ last.err.type = "ValueError"
                   /\ last.trace = <<>>
            /\ (name /\ ~model) =>
                   /\ last.err.type = "FileNotFoundError"
                   /\ last.err.what = "Model file not found"
                   /\ last.trace = <<"exists:model">>
            /\ (name /\ model /\ ~data) =>
                   /\ last.err.type = "FileNotFoundError"
                   /\ last.err.what = "Training data not found"
                   /\ last.trace[1] = "exists:model"
            /\ ~(name /\ model /\ data) => ~after
            /\ (name /\ model /\ data) => after

\* a load of a valid name for which the model file and the data files are
\* both missing: the model file decides
C29_Witness ==
    /\ last.op = "load"
    /\ NameCheck(last.stat_name)
    /\ ~ModelFileExists(last.stat_name, last.z_index)
    /\ ~AllDataFilesExist(last.stat_name, last.z_index)
    /\ last.err.what = "Model file not found"
    /\ last.trace = <<"exists:model">>

\* C30: the manual restore runs only after the standard restore raised
\* IndexError, and any other exception of the restore reaches the caller as
\* it is; after the manual restore the current value of a parameter with
\* persisted samples is the last draw of its chain, its draws are the whole
\* chain in order, and the prior and MCMC settings are copied for every
\* parameter of the persisted info except logPost.
C30_ManualRestore ==
    last.op = "load" =>
        LET manual == InSeq("manual_restore", last.trace)
            stored == PersistedModel(last.stat_name)
        IN  /\ manual => InSeq("except IndexError", last.trace)
            /\ (InSeq("restore_model_info", last.trace) /\ last.err.type # "none") =>
                   /\ ~manual
                   /\ last.err.type # "IndexError"
                   /\ last.err.what = "restore_model_info"
            /\ (manual /\ Loaded) =>
                   /\ emu[1].model[1].restored_by = "manual"
                   /\ emu[1].model[1].val = <<stored.samples[Len(stored.samples)]>>
                   /\ emu[1].model[1].draws = stored.samples
                   /\ emu[1].model[1].settings = stored.param_info \ {"logPost"}

\* a load that went through the manual restore and returned an emulator
C30_Witness ==
    /\ Loaded
    /\ InSeq("manual_restore", last.trace)
    /\ emu[1].model[1].restored_by = "manual"
    /\ Len(emu[1].model[1].draws) > 1
    /\ emu[1].model[1].val # <<emu[1].model[1].draws[1]>>

====
